---- MODULE Spec2Model ----
(***************************************************************************)
(* Model of tools/schema-tracker (src/main.rs): the structural analyzer,   *)
(* the two schema generators, the hasher and the capture orchestrator      *)
(* that writes one schema document per invocation into the archive.        *)
(***************************************************************************)
EXTENDS Integers, Sequences, FiniteSets, TLC

(***************************************************************************)
(* serde_json::Value.  Every value is a record [k, v]: k is the variant,   *)
(* v its payload.  An object's payload is the sequence of its <<key,       *)
(* value>> entries in the map's iteration order, keys distinct.            *)
(***************************************************************************)
Null == [k |-> "null", v |-> <<>>]
Bool(b) == [k |-> "bool", v |-> b]
\* A Number: int is TRUE for an i64/u64, FALSE for a float (n stands for n + 0.5).
Num(isInt, n) == [k |-> "number", v |-> [int |-> isInt, n |-> n]]
Str(s) == [k |-> "string", v |-> s]
Arr(items) == [k |-> "array", v |-> items]
Obj(entries) == [k |-> "object", v |-> entries]

is_null(j) == j.k = "null"
Keys(o) == {o.v[i][1] : i \in 1..Len(o.v)}
Has(o, key) == o.k = "object" /\ key \in Keys(o)
Get(o, key) == o.v[CHOOSE i \in 1..Len(o.v) : o.v[i][1] = key][2]

\* Map::insert: replaces the value of a key already present, adds the entry otherwise.
MapInsert(entries, key, val) ==
    IF \E i \in 1..Len(entries) : entries[i][1] = key
    THEN [i \in 1..Len(entries) |->
            IF entries[i][1] = key THEN <<key, val>> ELSE entries[i]]
    ELSE Append(entries, <<key, val>>)

(***************************************************************************)
(* Structural analyzer.                                                    *)
(***************************************************************************)
\* Result<T>: val is the value of an Ok, err the message of an Err.
Ok(x) == [ok |-> TRUE, val |-> x, err |-> ""]
Err(e) == [ok |-> FALSE, val |-> Null, err |-> e]

\* type_name.chars().next().unwrap().to_uppercase() + &type_name[1..]
Capitalize(type_name) == IF type_name = "integer" THEN "Integer" ELSE "Number"

PlaceholderItems ==
    Obj(<< <<"description", Str("Array type - items unknown from empty array")>> >>)

RECURSIVE analyze_field_structure(_, _)

\* A faulty items_schema: looks at the last element instead of the first.
items_schema_last(arr) ==
    IF Len(arr) > 0
    THEN analyze_field_structure(arr[Len(arr)], "array_item")
    ELSE PlaceholderItems

items_schema(arr) ==
    IF Len(arr) > 0
    THEN analyze_field_structure(arr[1], "array_item")
    ELSE PlaceholderItems

\* A faulty object_fragment: describes the nested object's fields too.
RECURSIVE nested_properties(_, _)
nested_properties(entries, acc) ==
    IF entries = <<>> THEN acc
    ELSE nested_properties(Tail(entries),
            MapInsert(acc, entries[1][1],
                      analyze_field_structure(entries[1][2], entries[1][1])))

object_fragment_recursive(value, field_name) ==
    Obj(<< <<"type", Str("object")>>,
           <<"description", Str("Object field: " \o field_name)>>,
           <<"properties", Obj(nested_properties(value.v, <<>>))>> >>)

object_fragment(value, field_name) ==
    Obj(<< <<"type", Str("object")>>,
           <<"description", Str("Object field: " \o field_name)>> >>)

null_fragment(field_name) ==
    Obj(<< <<"anyOf", Arr(<< Obj(<< <<"type", Str("null")>> >>),
                             Obj(<< <<"description",
                                      Str("Optional field - type determined at runtime")>> >>) >>)>>,
           <<"description", Str("Optional field: " \o field_name)>> >>)

analyze_field_structure(value, field_name) ==
    CASE value.k = "string" ->
            Obj(<< <<"type", Str("string")>>,
                   <<"description", Str("String field: " \o field_name)>> >>)
      [] value.k = "number" ->
            LET type_name == IF value.v.int THEN "integer" ELSE "number"
            IN  Obj(<< <<"type", Str(type_name)>>,
                       <<"description",
                         Str(Capitalize(type_name) \o " field: " \o field_name)>> >>)
      [] value.k = "bool" ->
            Obj(<< <<"type", Str("boolean")>>,
                   <<"description", Str("Boolean field: " \o field_name)>> >>)
      [] value.k = "array" ->
            Obj(<< <<"type", Str("array")>>,
                   <<"items", items_schema(value.v)>>,
                   <<"description", Str("Array field: " \o field_name)>> >>)
      [] value.k = "object" -> object_fragment(value, field_name)
      [] value.k = "null" -> null_fragment(field_name)

\* The loop of analyze_complete_structure over the entries of the root object:
\* acc is <<properties, required_fields>>.
RECURSIVE analyze_fields(_, _)

\* A faulty required_push: pushes every field, null or not.
required_push_all(required, field_name, field_value) == Append(required, field_name)

required_push(required, field_name, field_value) ==
    IF ~is_null(field_value) THEN Append(required, field_name) ELSE required

\* A faulty properties_insert: drops the field when its value is null.
properties_insert_nonnull(properties, field_name, field_value) ==
    IF is_null(field_value) THEN properties
    ELSE MapInsert(properties, field_name,
                   analyze_field_structure(field_value, field_name))

properties_insert(properties, field_name, field_value) ==
    MapInsert(properties, field_name, analyze_field_structure(field_value, field_name))

analyze_fields(entries, acc) ==
    IF entries = <<>> THEN acc
    ELSE LET field_name == entries[1][1]
             field_value == entries[1][2]
         IN  analyze_fields(Tail(entries),
                 << properties_insert(acc[1], field_name, field_value),
                    required_push(acc[2], field_name, field_value) >>)

analyze_complete_structure(value) ==
    IF value.k = "object"
    THEN LET acc == analyze_fields(value.v, << <<>>, <<>> >>)
         IN  Ok(Obj(<< <<"$schema", Str("http://json-schema.org/draft-07/schema#")>>,
                       <<"title", Str("ConversationState")>>,
                       <<"type", Str("object")>>,
                       <<"description", Str("Amazon Q CLI conversation state structure")>>,
                       <<"properties", Obj(acc[1])>>,
                       <<"required", Arr([i \in 1..Len(acc[2]) |-> Str(acc[2][i])])>> >>))
    ELSE Err("Expected object at root level")

(***************************************************************************)
(* Bounds of the model.                                                    *)
(***************************************************************************)
\* The clock is read in ticks 0..MaxTick, TicksPerSec of them to the second.  A tick
\* is one reading of the clock: an invocation reads later ticks than the one before it.
MaxTick == 2
TicksPerSec == 2
\* Structural-analyzer inputs: nesting below a root field, array length, root fields.
MaxDepth == 1
MaxArrLen == 2
MaxFields == 2

(***************************************************************************)
(* chrono: Utc::now(), format("%Y%m%d_%H%M%S"), to_rfc3339().  The clock   *)
(* starts at 12:59:59 of one day, so that seconds, minutes and hours roll  *)
(* over within the ticks of a run.                                         *)
(***************************************************************************)
StartSecOfDay == 12 * 3600 + 59 * 60 + 59
SecOf(t) == StartSecOfDay + (t \div TicksPerSec)
Pad2(n) == IF n < 10 THEN "0" \o ToString(n) ELSE ToString(n)
Pad3(n) == IF n < 10 THEN "00" \o ToString(n)
           ELSE IF n < 100 THEN "0" \o ToString(n) ELSE ToString(n)
Hour(t) == SecOf(t) \div 3600
Minute(t) == (SecOf(t) % 3600) \div 60
Second(t) == SecOf(t) % 60

to_rfc3339(t) ==
    LET frac == t % TicksPerSec
    IN  "2025-08-20T" \o Pad2(Hour(t)) \o ":" \o Pad2(Minute(t)) \o ":" \o Pad2(Second(t))
        \o (IF frac = 0 THEN "" ELSE "." \o Pad3((frac * 1000) \div TicksPerSec))
        \o "+00:00"

\* A faulty format_timestamp: "%Y%m%d_%H%M", the seconds left out.
format_timestamp_minutes(t) == "20250820_" \o Pad2(Hour(t)) \o Pad2(Minute(t))

format_timestamp(t) ==
    "20250820_" \o Pad2(Hour(t)) \o Pad2(Minute(t)) \o Pad2(Second(t))

(***************************************************************************)
(* The revision-control subprocess and get_git_commit.  Text is a sequence *)
(* of characters; "e'" is a two-byte character and "<ff>" a byte that is   *)
(* no valid UTF-8.                                                         *)
(***************************************************************************)
HeadHash == << "7","1","c","0","0","8","1","4","2","4","7","c","3","c","2","d",
               "6","e","1","3","4","c","3","c","b","d","0","f","2","3","f","6",
               "7","4","5","b","1","4","6","6" >>
GitOutcomes ==
    { [spawned |-> FALSE, success |-> FALSE, stdout |-> <<>>],
      [spawned |-> TRUE, success |-> FALSE, stdout |-> <<>>],
      [spawned |-> TRUE, success |-> TRUE, stdout |-> <<"<ff>", "\n">>],
      [spawned |-> TRUE, success |-> TRUE, stdout |-> HeadHash \o <<"\n">>],
      [spawned |-> TRUE, success |-> TRUE, stdout |-> <<"\n">>],
      [spawned |-> TRUE, success |-> TRUE, stdout |-> <<"a", "b", "c", "\n">>],
      [spawned |-> TRUE, success |-> TRUE,
       stdout |-> <<"a", "b", "c", "d", "e", "f", "g", "e'", "h", "\n">>] }

Width(ch) == IF ch = "e'" THEN 2 ELSE 1
RECURSIVE ByteLen(_)
ByteLen(s) == IF s = <<>> THEN 0 ELSE Width(s[1]) + ByteLen(Tail(s))
IsSpace(ch) == ch \in {" ", "\n"}
RECURSIVE trim_start(_)
trim_start(s) == IF s # <<>> /\ IsSpace(s[1]) THEN trim_start(Tail(s)) ELSE s
RECURSIVE trim_end(_)
trim_end(s) ==
    IF s # <<>> /\ IsSpace(s[Len(s)]) THEN trim_end(SubSeq(s, 1, Len(s) - 1)) ELSE s
trim(s) == trim_end(trim_start(s))
from_utf8_ok(s) == \A i \in 1..Len(s) : s[i] # "<ff>"
RECURSIVE Concat(_)
Concat(s) == IF s = <<>> THEN "" ELSE s[1] \o Concat(Tail(s))

\* A faulty get_git_commit: a non-zero exit is not told from a successful one.
NoCommit(e) == [ok |-> FALSE, val |-> <<>>, err |-> e]
get_git_commit_unchecked(out) ==
    IF ~out.spawned THEN NoCommit("spawn")
    ELSE IF from_utf8_ok(out.stdout) THEN Ok(trim(out.stdout)) ELSE NoCommit("utf8")

get_git_commit(out) ==
    IF ~out.spawned THEN NoCommit("spawn")
    ELSE IF out.success
         THEN IF from_utf8_ok(out.stdout) THEN Ok(trim(out.stdout)) ELSE NoCommit("utf8")
         ELSE NoCommit("Failed to get git commit")

\* &s[..n]: panics unless n is within the text and on a character boundary.
slice_to_ok(s, n) ==
    \E i \in 0..(IF Len(s) < n THEN Len(s) ELSE n) : ByteLen(SubSeq(s, 1, i)) = n

(***************************************************************************)
(* calculate_schema_hash: SHA-256 of the compact serialization, in hex.    *)
(***************************************************************************)
\* serde_json::to_string.  The text is kept as the tree of its pieces, in order:
\* the text itself is their concatenation, with commas between the pieces of an
\* array or an object.
RECURSIVE to_string(_)
to_string(j) ==
    CASE j.k = "null" -> <<"null">>
      [] j.k = "bool" -> <<IF j.v THEN "true" ELSE "false">>
      [] j.k = "number" -> <<IF j.v.int THEN ToString(j.v.n) ELSE ToString(j.v.n) \o ".5">>
      [] j.k = "string" -> <<"\"" \o j.v \o "\"">>
      [] j.k = "array" -> <<"[", [i \in 1..Len(j.v) |-> to_string(j.v[i])], "]">>
      [] j.k = "object" ->
            <<"{", [i \in 1..Len(j.v) |->
                      <<"\"" \o j.v[i][1] \o "\":", to_string(j.v[i][2])>>], "}">>

\* The SHA-256 digest of a text, in hex ({:x}): HexDigestLen characters, and one
\* digest per text (no two texts of a run collide).
HexDigestLen == 64
Sha256Hex(text) == <<"sha256", text>>

calculate_schema_hash(schema) == Sha256Hex(to_string(schema))

(***************************************************************************)
(* The two schema generators.                                              *)
(***************************************************************************)
\* test_json of create_test_conversation_state, as the instance serializes back.
CannedExample ==
    Obj(<< <<"conversation_id", Str("schema_analysis_test")>>,
           <<"next_message", Null>>,
           <<"history", Arr(<<>>)>>,
           <<"valid_history_range", Arr(<<Num(TRUE, 0), Num(TRUE, 0)>>)>>,
           <<"transcript", Arr(<<>>)>>,
           <<"tools", Obj(<<>>)>>,
           <<"context_manager", Null>>,
           <<"context_message_length", Null>>,
           <<"latest_summary", Null>>,
           <<"model", Null>>,
           <<"model_info", Null>>,
           <<"file_line_tracker", Obj(<<>>)>> >>)

\* What building and serializing the example instance of the application's own
\* type can do: from_value fails, to_value fails, or a value comes back (serialized).
GenOutcomes ==
    { [deserialized |-> FALSE, converted |-> FALSE, serialized |-> Null],
      [deserialized |-> TRUE, converted |-> FALSE, serialized |-> Null],
      [deserialized |-> TRUE, converted |-> TRUE, serialized |-> Str("opaque")],
      [deserialized |-> TRUE, converted |-> TRUE, serialized |-> CannedExample] }

Ref(name) == Obj(<< <<"$ref", Str("#/definitions/" \o name)>> >>)
Nullable(frag) == Obj(<< <<"anyOf", Arr(<<frag, Obj(<< <<"type", Str("null")>> >>)>>)>> >>)
UintFrag == Obj(<< <<"type", Str("integer")>>, <<"format", Str("uint")>> >>)
ArrayOf(frag) == Obj(<< <<"type", Str("array")>>, <<"items", frag>> >>)
MapOf(frag) == Obj(<< <<"type", Str("object")>>, <<"additionalProperties", frag>> >>)

\* schema_for!(SchemaConversationState), to the first level of the mirrored type.
SchemarsSchema ==
    Obj(<< <<"$schema", Str("http://json-schema.org/draft-07/schema#")>>,
           <<"title", Str("ConversationState")>>,
           <<"description", Str("Schema-aware copy of ConversationState")>>,
           <<"type", Str("object")>>,
           <<"required", Arr(<< Str("conversation_id"), Str("file_line_tracker"),
                                Str("history"), Str("tools"), Str("transcript"),
                                Str("valid_history_range") >>)>>,
           <<"properties", Obj(<<
               <<"conversation_id", Obj(<< <<"type", Str("string")>> >>)>>,
               <<"next_message", Nullable(Ref("UserMessage"))>>,
               <<"history", ArrayOf(Ref("HistoryEntry"))>>,
               <<"valid_history_range", ArrayOf(UintFrag)>>,
               <<"transcript", ArrayOf(Ref("TranscriptEntry"))>>,
               <<"tools", MapOf(ArrayOf(Ref("Tool")))>>,
               <<"context_manager", Nullable(Ref("ContextManager"))>>,
               <<"context_message_length", Nullable(UintFrag)>>,
               <<"latest_summary", Nullable(ArrayOf(Ref("RequestMetadata")))>>,
               <<"model", Nullable(Obj(<< <<"type", Str("string")>> >>))>>,
               <<"model_info", Nullable(Ref("ModelInfo"))>>,
               <<"file_line_tracker", MapOf(Ref("FileLineTracker"))>> >>)>> >>)

\* schema_obj.insert of the three metadata keys; g is the clock reading.
add_metadata(schema, method, g, text) ==
    Obj(MapInsert(MapInsert(MapInsert(schema.v,
            "_generation_method", Str(method)),
            "_generation_timestamp", Str(to_rfc3339(g))),
            "_note", Str(text)))

generate_schema_with_schemars(converted, g) ==
    IF ~converted THEN Err("to_value")
    ELSE Ok(add_metadata(SchemarsSchema, "schemars_complete_introspection", g,
                "Generated using schemars with copied types + JsonSchema derives"))

generate_schema_from_actual_type(gen, g) ==
    IF ~gen.deserialized THEN Err("from_value")
    ELSE IF ~gen.converted THEN Err("to_value")
    ELSE LET schema == analyze_complete_structure(gen.serialized)
         IN  IF ~schema.ok THEN schema
             ELSE Ok(add_metadata(schema.val, "type_introspection", g,
                     "Generated through type introspection without upstream modifications"))

(***************************************************************************)
(* The filesystem: the archive directory and the files in it.              *)
(***************************************************************************)
schema_dir == "tools/schema-tracker/schemas"
DirChain == << "tools", "tools/schema-tracker", schema_dir >>
FirstDirs(n) == {DirChain[i] : i \in 1..n}

\* fs::create_dir_all: creates the missing components in turn; a failure leaves
\* the components made before it.
create_dir_all(existing) ==
    LET n == Cardinality(existing)
    IN  {[ok |-> TRUE, dirs |-> FirstDirs(Len(DirChain))]}
        \cup {[ok |-> FALSE, dirs |-> FirstDirs(m)] : m \in n..(Len(DirChain) - 1)}

\* A faulty method_suffix: the strategy is left out of the name.
method_suffix_none(use_schemars) == ""

method_suffix(use_schemars) == IF use_schemars THEN "_schemars" ELSE ""

filename_of(timestamp, use_schemars) ==
    schema_dir \o "/conversation_schema_" \o format_timestamp(timestamp)
    \o method_suffix(use_schemars) \o ".json"

\* A file holds the pretty-printed text of doc; Truncated is a file left with a
\* proper prefix of the text that was being written to it.
FileOf(doc) == [doc |-> doc, truncated |-> FALSE]
Truncated == [doc |-> Null, truncated |-> TRUE]
Put(fs, path, content) ==
    [p \in DOMAIN fs \cup {path} |-> IF p = path THEN content ELSE fs[p]]

\* A faulty fs_write: a failed write leaves a stray temporary file behind.
fs_write_stray(fs, path, doc) ==
    { [ok |-> TRUE, files |-> Put(fs, path, FileOf(doc))],
      [ok |-> FALSE, files |-> fs],
      [ok |-> FALSE, files |-> Put(fs, path \o ".tmp", Truncated)] }

\* fs::write: File::create (creates or truncates), then write_all.
fs_write(fs, path, doc) ==
    { [ok |-> TRUE, files |-> Put(fs, path, FileOf(doc))],
      [ok |-> FALSE, files |-> fs],
      [ok |-> FALSE, files |-> Put(fs, path, Truncated)] }

(***************************************************************************)
(* capture_schema.                                                         *)
(***************************************************************************)
None == [some |-> FALSE, val |-> ""]
Some(x) == [some |-> TRUE, val |-> x]
Notes == {None, Some("release 1.0")}

make_output(timestamp, git_commit, schema_hash, note, schema) ==
    Obj(<< <<"timestamp", Str(to_rfc3339(timestamp))>>,
           <<"git_commit", IF git_commit.ok THEN Str(Concat(git_commit.val)) ELSE Null>>,
           <<"schema_hash", Str(schema_hash)>>,
           <<"note", Str(IF note.some THEN note.val ELSE "Schema capture")>>,
           <<"schema", schema>> >>)

\* The prints after the write: &schema_hash[..12] and &commit[..8].
report_ok(git_commit) ==
    /\ 12 <= HexDigestLen
    /\ git_commit.ok => slice_to_ok(git_commit.val, 8)

\* What the generation step of a strategy can meet.
GenInputs(use_schemars) ==
    IF use_schemars THEN {[converted |-> TRUE], [converted |-> FALSE]} ELSE GenOutcomes

generate(use_schemars, gen, g) ==
    IF use_schemars THEN generate_schema_with_schemars(gen.converted, g)
    ELSE generate_schema_from_actual_type(gen, g)

VARIABLES
    files,      \* the archive: path |-> file content
    dirs,       \* the directories of DirChain that exist
    now,        \* the clock: the earliest tick the next reading returns
    last,       \* the last invocation: its inputs, what it met and how it ended
    value,      \* the JSON value handed to the structural analyzer
    analysis    \* the analyzer's result for value, NotRun before the call

vars == <<files, dirs, now, last, value, analysis>>

NotRun == Err("not run")
NoGit == [spawned |-> FALSE, success |-> FALSE, stdout |-> <<>>]

\* The invocation's record: result is "ok", "err" (an error propagated to main)
\* or "panic" (the process aborted); stage is the step it ended at.
Ended(result, stage, note, use_schemars, git, timestamp) ==
    [result |-> result, stage |-> stage, note |-> note, use_schemars |-> use_schemars,
     git |-> git, timestamp |-> timestamp]
NoCapture == Ended("none", "none", None, FALSE, NoGit, -1)

\* main and capture_schema, one invocation from the command line to the exit.
\* The inputs are the arguments (note, use_schemars) and what the invocation
\* meets: the generation outcome, the two clock readings, the subprocess, and
\* the outcomes of create_dir_all, to_string_pretty and fs::write.
Capture ==
    /\ \E use_schemars \in BOOLEAN :
       \E gen \in GenInputs(use_schemars), g \in now..MaxTick :
          LET generated == generate(use_schemars, gen, g)
              schema == generated.val
              schema_hash == calculate_schema_hash(schema)
          IN  IF ~generated.ok
              THEN \* lines 49-53: the error of the generator is returned
                   /\ last' = Ended("err", "generate", None, use_schemars, NoGit, -1)
                   /\ UNCHANGED <<files, dirs, now>>
              ELSE \E timestamp \in g..MaxTick, mk \in create_dir_all(dirs) :
                   /\ now' = timestamp + 1
                   /\ dirs' = mk.dirs
                   /\ IF ~mk.ok
                      THEN \* line 77: fs::create_dir_all(schema_dir)?
                           /\ last' = Ended("err", "create_dir_all", None, use_schemars,
                                            NoGit, timestamp)
                           /\ UNCHANGED files
                      ELSE \/ \* line 80: serde_json::to_string_pretty(&output)?
                              /\ last' = Ended("err", "to_string_pretty", None,
                                               use_schemars, NoGit, timestamp)
                              /\ UNCHANGED files
                           \/ \* line 80: fs::write(&filename, ..)?
                              \E wr \in fs_write(files,
                                          filename_of(timestamp, use_schemars), Null) :
                                 /\ ~wr.ok
                                 /\ files' = wr.files
                                 /\ last' = Ended("err", "write", None, use_schemars,
                                                  NoGit, timestamp)
                           \/ \* lines 80-92: the file is written, then the prints
                              \E git \in GitOutcomes :
                              LET git_commit == get_git_commit(git)
                                  result == IF report_ok(git_commit) THEN "ok" ELSE "panic"
                              IN  \E note \in Notes :
                                  \E wr \in fs_write(files,
                                              filename_of(timestamp, use_schemars),
                                              make_output(timestamp, git_commit,
                                                          schema_hash, note, schema)) :
                                     /\ wr.ok
                                     /\ files' = wr.files
                                     /\ last' = Ended(result, "report", note,
                                                      use_schemars, git, timestamp)
    /\ UNCHANGED <<value, analysis>>

Init ==
    /\ files = << >>
    /\ dirs \in {FirstDirs(n) : n \in 0..Len(DirChain)}
    /\ now = 0
    /\ last = NoCapture
    /\ value = Null
    /\ analysis = NotRun

Next == Capture

Spec == Init /\ [][Next]_vars

(***************************************************************************)
(* The structural analyzer on its own: value is any JSON value of the      *)
(* bounded universe below, Analyze is the call.                            *)
(***************************************************************************)
Scalars == {Str("x"), Num(TRUE, 1), Num(FALSE, 1), Bool(TRUE), Null}
RootKeys == {"a", "b", "c"}
SeqsUpTo(S, n) == UNION {[1..m -> S] : m \in 0..n}

\* The values nested at most d deep.  An array's first element is any value one
\* level down, its later elements are scalars or empty containers.
RECURSIVE Vals(_)
Vals(d) ==
    IF d = 0 THEN Scalars \cup {Arr(<<>>), Obj(<<>>)}
    ELSE LET P == Vals(d - 1)
         IN  P \cup {Arr(<<h>> \o t) : h \in P, t \in SeqsUpTo(Vals(0), MaxArrLen - 1)}
               \cup {Obj(<< <<"n", x>> >>) : x \in P}

KeyOrders == {ks \in SeqsUpTo(RootKeys, MaxFields) :
                 \A i, j \in 1..Len(ks) : ks[i] = ks[j] => i = j}
\* Objects of up to MaxFields fields with flat values, in every key order.
WideInputs ==
    {Obj([i \in 1..Len(ks) |-> <<ks[i], vs[i]>>]) :
        <<ks, vs>> \in {kv \in KeyOrders \X SeqsUpTo(Vals(0), MaxFields) :
                           Len(kv[1]) = Len(kv[2])}}
\* Objects of one field whose value nests MaxDepth deep.
DeepInputs == {Obj(<< <<key, x>> >>) : key \in RootKeys, x \in Vals(MaxDepth)}
ExampleABC ==
    Obj(<< <<"a", Str("x")>>, <<"b", Null>>,
           <<"c", Arr(<<Num(TRUE, 1), Num(TRUE, 2)>>)>> >>)
Inputs == WideInputs \cup DeepInputs \cup {ExampleABC} \cup Scalars \cup {Arr(<<>>)}

InitA ==
    /\ files = << >>
    /\ dirs = {}
    /\ now = 0
    /\ last = NoCapture
    /\ value \in Inputs
    /\ analysis = NotRun

Analyze ==
    /\ analysis = NotRun
    /\ analysis' = analyze_complete_structure(value)
    /\ UNCHANGED <<files, dirs, now, last, value>>

NextA == Analyze

SpecA == InitA /\ [][NextA]_vars

(***************************************************************************)
(* Properties of the structural analyzer (SpecA).                          *)
(***************************************************************************)
Analyzed == analysis # NotRun
Properties == Get(analysis.val, "properties")
Required == Get(analysis.val, "required")
FieldIndexes == 1..Len(value.v)
FieldName(i) == value.v[i][1]
FieldValue(i) == value.v[i][2]
Fragment(i) == Get(Properties, FieldName(i))
NullOption == Obj(<< <<"type", Str("null")>> >>)

\* C6: for every JSON object given as root, analyze_complete_structure succeeds,
\* the result has type "object", and properties has exactly the keys of the
\* input: one entry per input key and no other.
C6_PropertiesMatchInput ==
    (Analyzed /\ value.k = "object") =>
        /\ analysis.ok
        /\ Get(analysis.val, "type") = Str("object")
        /\ Keys(Properties) = Keys(value)
        /\ Len(Properties.v) = Len(value.v)

C6_Witness ==
    /\ Analyzed /\ analysis.ok
    /\ Len(value.v) = 2
    /\ is_null(FieldValue(1))
    /\ Keys(Properties) = {FieldName(1), FieldName(2)}

\* C7: required lists exactly the keys whose value is not null, each once and in
\* the input's key order; a key whose value is null is not in required and its
\* fragment has an anyOf with a {"type": "null"} option.
NonNullKeys ==
    LET kept == SelectSeq(value.v, LAMBDA e : ~is_null(e[2]))
    IN  [i \in 1..Len(kept) |-> Str(kept[i][1])]

C7_RequiredIsNonNull ==
    (Analyzed /\ value.k = "object") =>
        /\ Required = Arr(NonNullKeys)
        /\ \A i \in FieldIndexes :
              is_null(FieldValue(i)) =>
                 /\ \A r \in 1..Len(Required.v) : Required.v[r] # Str(FieldName(i))
                 /\ Has(Fragment(i), "anyOf")
                 /\ \E o \in 1..Len(Get(Fragment(i), "anyOf").v) :
                       Get(Fragment(i), "anyOf").v[o] = NullOption

C7_Witness ==
    /\ Analyzed /\ analysis.ok
    /\ value = ExampleABC
    /\ Required = Arr(<<Str("a"), Str("c")>>)
    /\ Has(Get(Properties, "b"), "anyOf")

\* C8: the fragment of an array-valued field has type "array"; for a non-empty
\* array its items is the fragment the analyzer gives the first element alone,
\* whatever the later elements are; for an empty array items is the
\* placeholder, which has no type.
C8_ItemsFromFirstElement ==
    (Analyzed /\ value.k = "object") =>
        \A i \in FieldIndexes :
           FieldValue(i).k = "array" =>
              /\ Get(Fragment(i), "type") = Str("array")
              /\ Has(Fragment(i), "items")
              /\ IF FieldValue(i).v = <<>>
                 THEN /\ Get(Fragment(i), "items") = PlaceholderItems
                      /\ ~Has(Get(Fragment(i), "items"), "type")
                 ELSE /\ Get(Fragment(i), "items")
                           = analyze_field_structure(FieldValue(i).v[1], "array_item")
                      /\ Get(Fragment(i), "items")
                           = Get(analyze_field_structure(Arr(<<FieldValue(i).v[1]>>),
                                                         FieldName(i)), "items")

C8_Witness ==
    /\ Analyzed /\ analysis.ok
    /\ \E i \in FieldIndexes :
          /\ FieldValue(i).k = "array"
          /\ Len(FieldValue(i).v) = 2
          /\ FieldValue(i).v[1].k = "number"
          /\ FieldValue(i).v[2].k = "string"
          /\ Get(Get(Fragment(i), "items"), "type") = Str("integer")

\* C9 as stated: the fragment of an object-valued field describes that object's
\* own fields, a nested properties entry per nested key.
C9_NestedObjectsDescribed ==
    (Analyzed /\ value.k = "object") =>
        \A i \in FieldIndexes :
           (FieldValue(i).k = "object" /\ FieldValue(i).v # <<>>) =>
              /\ Has(Fragment(i), "properties")
              /\ Keys(FieldValue(i)) \subseteq Keys(Get(Fragment(i), "properties"))

\* The nesting of properties in a fragment, followed through items.
RECURSIVE PropertiesDepth(_)
PropertiesDepth(frag) ==
    IF Has(frag, "properties")
    THEN 1 + (IF Get(frag, "properties").v = <<>> THEN 0
              ELSE LET ds == {PropertiesDepth(Get(frag, "properties").v[i][2]) :
                                 i \in 1..Len(Get(frag, "properties").v)}
                   IN  CHOOSE d \in ds : \A e \in ds : e <= d)
    ELSE IF Has(frag, "items") THEN PropertiesDepth(Get(frag, "items"))
    ELSE 0

\* C9 amended: the analyzer does not recurse into object-valued fields.  The
\* fragment of a field whose value is an object is exactly {type: "object",
\* description: "Object field: <name>"}, with no properties, whatever the object
\* holds; only the root has properties, so properties nest one level deep in
\* the schema however deep the input is.
C9_ObjectFieldsAreFlat ==
    (Analyzed /\ value.k = "object") =>
        /\ PropertiesDepth(analysis.val) = 1
        /\ \A i \in FieldIndexes :
              FieldValue(i).k = "object" =>
                 /\ ~Has(Fragment(i), "properties")
                 /\ Fragment(i) = Obj(<< <<"type", Str("object")>>,
                                        <<"description",
                                          Str("Object field: " \o FieldName(i))>> >>)

C9_Witness ==
    /\ Analyzed /\ analysis.ok
    /\ \E i \in FieldIndexes :
          /\ FieldValue(i).k = "object"
          /\ FieldValue(i).v # <<>>
          /\ FieldValue(i).v[1][2].k = "array"
          /\ Keys(Fragment(i)) = {"type", "description"}

(***************************************************************************)
(* Properties of capture (Spec).                                           *)
(***************************************************************************)
Paths == DOMAIN files
Complete(fs, p) == p \in DOMAIN fs /\ ~fs[p].truncated
MethodOf(use_schemars) ==
    IF use_schemars THEN "schemars_complete_introspection" ELSE "type_introspection"
\* The document was written by a capture of this strategy whose timestamp is in
\* the same calendar second as tick t.
WrittenInSlot(doc, t, use_schemars) ==
    /\ \E t0 \in 0..MaxTick :
          /\ Get(doc, "timestamp") = Str(to_rfc3339(t0))
          /\ SecOf(t0) = SecOf(t)
    /\ Get(Get(doc, "schema"), "_generation_method") = Str(MethodOf(use_schemars))
WrittenAt(doc, t) == Get(doc, "timestamp") = Str(to_rfc3339(t))
\* The name the file of a capture is to have.
ExpectedPath(t, use_schemars) ==
    "tools/schema-tracker/schemas/conversation_schema_20250820_"
    \o Pad2(Hour(t)) \o Pad2(Minute(t)) \o Pad2(Second(t))
    \o (IF use_schemars THEN "_schemars" ELSE "") \o ".json"
\* The paths a step has created or changed.
Touched == {p \in DOMAIN files' : p \notin Paths \/ files'[p] # files[p]}

\* C1 as stated: a file in the archive is never modified or deleted by a later
\* capture; its content stays what was first written.
C1_FilesNeverModified ==
    [][\A p \in Paths : p \in DOMAIN files' /\ files'[p] = files[p]]_vars

\* C1 amended: a later capture never deletes a file of the archive, so the set of
\* archive files only grows, and it changes the content of a file an earlier
\* capture wrote only when it has the same strategy and a timestamp in the same
\* calendar second as that capture (the file is then overwritten, or left
\* truncated if the write fails).
C1_ModifiedOnlyInSameSlot ==
    [][\A p \in Paths :
          /\ p \in DOMAIN files'
          /\ (Complete(files, p) /\ files'[p] # files[p]) =>
                WrittenInSlot(files[p].doc, last'.timestamp, last'.use_schemars)]_vars

C1_Witness ==
    /\ last.result = "ok"
    /\ last.timestamp = 2
    /\ Cardinality(Paths) = 3
    /\ \E p \in Paths : Complete(files, p) /\ WrittenAt(files[p].doc, 0)
    /\ \E p \in Paths : Complete(files, p) /\ WrittenAt(files[p].doc, 1)

MapRemove(entries, key) == SelectSeq(entries, LAMBDA e : e[1] # key)
\* C2: two captures of the same strategy whose schemas are the same but for the
\* value of _generation_timestamp have the same schema_hash.
SchemaOf(p) == Get(files[p].doc, "schema")
SansTimestamp(schema) == Obj(MapRemove(schema.v, "_generation_timestamp"))
C2_HashIgnoresGenerationTimestamp ==
    \A p, q \in Paths :
       ( /\ Complete(files, p) /\ Complete(files, q)
         /\ Get(SchemaOf(p), "_generation_method") = Get(SchemaOf(q), "_generation_method")
         /\ SansTimestamp(SchemaOf(p)) = SansTimestamp(SchemaOf(q)) )
       => Get(files[p].doc, "schema_hash") = Get(files[q].doc, "schema_hash")

\* C3: when the subprocess fails (it cannot be spawned, exits non-zero, or its
\* output is not UTF-8) and every other step succeeds, the file is written, the
\* written document has git_commit null, and capture returns success.
GitFailed(git) ==
    \/ ~git.spawned
    \/ ~git.success
    \/ \E i \in 1..Len(git.stdout) : git.stdout[i] = "<ff>"
C3_GitFailureYieldsNull ==
    (last.stage = "report" /\ GitFailed(last.git)) =>
        /\ last.result = "ok"
        /\ Complete(files, ExpectedPath(last.timestamp, last.use_schemars))
        /\ LET doc == files[ExpectedPath(last.timestamp, last.use_schemars)].doc
           IN  /\ WrittenAt(doc, last.timestamp)
               /\ Get(doc, "git_commit") = Null

C3_Witness ==
    /\ last.stage = "report"
    /\ last.git.spawned /\ ~last.git.success
    /\ last.result = "ok"
    /\ Get(files[ExpectedPath(last.timestamp, last.use_schemars)].doc, "git_commit") = Null

\* C4 as stated: a capture that ends with a propagated error leaves the
\* filesystem, the archive directory and its files, as it was before.
C4_ErrorLeavesNoTrace ==
    [][last'.result = "err" => (files' = files /\ dirs' = dirs)]_vars

\* C4 amended: a capture that ends with an error of the schema generation leaves
\* the filesystem as it was; one that ends at the directory creation or at the
\* serialization of the document leaves every file as it was, but directories
\* may have been created (create_dir_all runs before both, and keeps what it
\* made); one that ends at the write leaves every file but the destination as
\* it was, and the destination as it was, or created or cut to a truncated file.
C4_ErrorTouchesOnlyDestination ==
    [][last'.result = "err" =>
          /\ dirs \subseteq dirs'
          /\ last'.stage = "generate" => (files' = files /\ dirs' = dirs)
          /\ last'.stage \in {"create_dir_all", "to_string_pretty"} => files' = files
          /\ last'.stage = "write" =>
                /\ Touched \subseteq {ExpectedPath(last'.timestamp, last'.use_schemars)}
                /\ \A p \in Touched : files'[p] = Truncated]_vars

C4_Witness ==
    /\ last.result = "err"
    /\ last.stage = "write"
    /\ Cardinality(Paths) = 2
    /\ files[ExpectedPath(last.timestamp, last.use_schemars)] = Truncated
    /\ \E p \in Paths : Complete(files, p)

\* C5: two captures write to the same path if and only if their timestamps are
\* in the same calendar second and their strategies are the same; the path is
\* conversation_schema_<YYYYMMDD_HHMMSS>, then _schemars for the declarative
\* strategy, then .json.  A capture that writes leaves one file with its own
\* document at that path and every other file as it was.
C5_PathIsSecondAndStrategy ==
    [][(last'.stage = "report" /\ now' # now) =>
          /\ Touched = {ExpectedPath(last'.timestamp, last'.use_schemars)}
          /\ \A q \in Touched :
                /\ Complete(files', q)
                /\ WrittenAt(files'[q].doc, last'.timestamp)
                /\ \A p \in Paths :
                      Complete(files, p) =>
                         (p = q <=> WrittenInSlot(files[p].doc, last'.timestamp,
                                                  last'.use_schemars))]_vars

C5_Witness ==
    /\ last.stage = "report"
    /\ last.timestamp = 1
    /\ last.use_schemars
    /\ Cardinality(Paths) = 2
    /\ Complete(files, ExpectedPath(1, TRUE))
    /\ WrittenAt(files[ExpectedPath(1, TRUE)].doc, 1)
    /\ Complete(files, ExpectedPath(0, FALSE))
    /\ WrittenAt(files[ExpectedPath(0, FALSE)].doc, 0)
    /\ SecOf(0) = SecOf(1)

\* C10: for every outcome of the subprocess, a successful exit with any output
\* text included, capture returns success once the file has been written; the
\* prints after the write never abort the process.
C10_ReportNeverAborts == last.stage = "report" => last.result = "ok"

====
